---- MODULE Spec2Model ----
(***************************************************************************)
(* The dashboard engine of i2c-int-monitor (src/src/tui.rs): the App       *)
(* state, SourceHistory::push, App::sample, the selection / visibility     *)
(* controller and the run loop, together with the flattening of the        *)
(* discovered topology (src/src/discovery.rs) that seeds it and the        *)
(* sampling loop of monitor mode (src/src/main.rs).                        *)
(*                                                                         *)
(* Spec is a dashboard run with keys, late ticks and read errors;          *)
(* SpecWindow is a long undisturbed run that fills the histories;          *)
(* SpecRate is one tick of the dashboard and of monitor mode over the      *)
(* whole range of a counter; SpecAxis is a dashboard whose series are      *)
(* hidden and shown while rates of several magnitudes arrive; SpecMonitor  *)
(* is the dashboard and monitor mode side by side on the same tables, with *)
(* read errors; SpecDiscovery is discover() and read_interrupts() on hosts *)
(* given as the text of the counter table and the sysfs directories        *)
(* (src/src/discovery.rs, src/src/interrupts.rs).                          *)
(* SpecStream is the dashboard loop with a key press waiting at every      *)
(* poll, under weak fairness of the loop's steps.                          *)
(*                                                                         *)
(* Numbers.  Counts are u64 in the program; rates and elapsed times are    *)
(* f64.  A rate r interrupts/s is held as the integer 1000 * r, an elapsed *)
(* time of s seconds as the integer 1000 * s (milliseconds).  The sampling *)
(* intervals used divide 10^6, so every rate of the model is exact.        *)
(* HashMap<String, u64> is a function whose DOMAIN is the set of keys.     *)
(* Option<T> is a sequence of length 0 (None) or 1 (Some).                 *)
(***************************************************************************)
EXTENDS Integers, Sequences, FiniteSets, TLC

(* ------------------------------ constants ------------------------------ *)

MAX_POINTS == 300

\* The default of --threshold, in thousandths.
DefaultThreshold == 100000

F64_MAX == 2000000000

F64_MIN == -F64_MAX

(* ------------------------------- bounds -------------------------------- *)

\* Ticks taken by one run of the dashboard loop.
MaxTicks == 2

\* Ticks a long run takes after its histories are full.
WindowExtra == 5

\* Width of a counter in the rate check (the program's counters are 64 bits wide).
CountBits == 8

(* ------------------------------- inputs -------------------------------- *)

None == << >>

Some(x) == << x >>

\* Discovered topologies: controllers in order, each with its own optional
\* interrupt line and its HID devices, each with an optional GPIO line.
TopoEmpty == << >>

Touchpad ==
    [acpi_name |-> "PIXA3854:00", device_type |-> "Touchpad", gpio_irq |-> Some("44")]

TouchpadNoGpio ==
    [acpi_name |-> "PIXA3854:00", device_type |-> "Touchpad", gpio_irq |-> None]

TopoPair ==
    << [name |-> "i2c_designware.0", irq |-> Some("42"), hid_devices |-> << Touchpad >>] >>

TopoNoGpio ==
    << [name |-> "i2c_designware.0", irq |-> Some("42"), hid_devices |-> << TouchpadNoGpio >>] >>

TopoNoIrq ==
    << [name |-> "i2c_designware.0", irq |-> None, hid_devices |-> << TouchpadNoGpio >>] >>

Topologies == {TopoEmpty, TopoPair, TopoNoGpio, TopoNoIrq}

\* Sampling intervals in milliseconds (the --interval argument).
Intervals == {500, 1000}

\* Counter snapshots a read of the interrupt table can return.
Snapshots ==
    { [i \in {"42", "44"} |-> IF i = "42" THEN 2 ELSE 1],
      [i \in {"42", "44"} |-> IF i = "42" THEN 5 ELSE 4],
      [i \in {"44"} |-> 3],
      [i \in {"42"} |-> 0] }

\* Snapshots the first read (the seed) can return.
InitialSnapshots ==
    { [i \in {"42", "44"} |-> IF i = "42" THEN 2 ELSE 1],
      [i \in {"44"} |-> 3] }

\* The snapshot read at tick k of a long run: IRQ 42 counts up steadily, IRQ 44
\* alternates between two values (a counter reset every other tick) and is
\* missing from the table now and then.
WindowSnapshot(k) ==
    [i \in (IF k % 100 = 1 THEN {"42"} ELSE {"42", "44"}) |->
        IF i = "42" THEN 2 + 3 * k ELSE 1 + 3 * (k % 2)]

\* All values of a counter CountBits wide.
CountRange == 0..(2 ^ CountBits - 1)

\* Snapshots of a table with the one row of IRQ 42.
RateSnapshots == {[i \in {"42"} |-> c] : c \in CountRange}

\* Seed tables of the rate check: the ends and the middle of the counter
\* range, and the counts 100 and 150.
RateSeeds ==
    {[i \in {"42"} |-> c] : c \in {0, 1, 100, 150, 2 ^ (CountBits - 1), 2 ^ CountBits - 1}}

\* Sampling intervals of the rate check (ms).
RateIntervals == {500, 1000, 2000}

\* Keys: q / Esc, Up / k, Down / j, space, anything else.
Keys == {"quit", "up", "down", "space", "other"}

\* How long after the poll starts a key event arrives (ms).
KeyWaits == {0, 500}

\* How far past the deadline the loop gets to its tick check (ms).
Lateness == {0, 700}

(* ------------------------------- helpers ------------------------------- *)

Min(a, b) == IF a <= b THEN a ELSE b

Max(a, b) == IF a >= b THEN a ELSE b

\* u64::wrapping_sub on counters CountBits wide.
wrapping_sub(a, b) == (a - b) % (2 ^ CountBits)

\* u64::saturating_sub
saturating_sub(a, b) == IF a >= b THEN a - b ELSE 0

\* delta as f64 / interval_s, with interval_s = interval_ms / 1000.0,
\* in thousandths of an interrupt per second.
RateOf(delta, ims) == (delta * 1000000) \div ims

\* A window that evicts only once it is over MAX_POINTS.
PushBack_OffByOne(data, point) ==
    Append(IF Len(data) > MAX_POINTS THEN Tail(data) ELSE data, point)

\* The bounded VecDeque: pop_front when full, then push_back.
PushBack(data, point) ==
    Append(IF Len(data) >= MAX_POINTS THEN Tail(data) ELSE data, point)

(* ------------------------------ discovery ------------------------------ *)

\* names.join(", ") over the device types of a controller.
RECURSIVE JoinTypes(_)
JoinTypes(devs) ==
    IF devs = << >> THEN ""
    ELSE IF Len(devs) = 1 THEN Head(devs).device_type
    ELSE Head(devs).device_type \o ", " \o JoinTypes(Tail(devs))

\* The device loop of all_sources for one controller.
RECURSIVE DeviceSources(_, _)
DeviceSources(devs, controller_name) ==
    IF devs = << >> THEN << >>
    ELSE (IF Head(devs).gpio_irq # None
          THEN << [irq |-> Head(devs).gpio_irq[1],
                   name |-> Head(devs).acpi_name,
                   device_type |-> Head(devs).device_type,
                   is_controller |-> FALSE,
                   parent_controller |-> Some(controller_name),
                   indent_level |-> 1] >>
          ELSE << >>) \o DeviceSources(Tail(devs), controller_name)

RECURSIVE all_sources(_)
all_sources(controllers) ==
    IF controllers = << >> THEN << >>
    ELSE LET c == Head(controllers)
             device_summary ==
                 IF c.hid_devices = << >> THEN ""
                 ELSE " (" \o JoinTypes(c.hid_devices) \o ")"
         IN (IF c.irq # None
             THEN << [irq |-> c.irq[1],
                      name |-> c.name \o device_summary,
                      device_type |-> "I2C Controller",
                      is_controller |-> TRUE,
                      parent_controller |-> None,
                      indent_level |-> 0] >>
             ELSE << >>)
            \o DeviceSources(c.hid_devices, c.name)
            \o all_sources(Tail(controllers))

(* ---------------------------- SourceHistory ---------------------------- *)

SourceHistory_new(info, initial_count, color_idx) ==
    [irq |-> info.irq, name |-> info.name, device_type |-> info.device_type,
     is_controller |-> info.is_controller,
     color_idx |-> color_idx, data |-> << >>, prev_count |-> initial_count,
     latest_rate |-> 0, rate_sum |-> 0, rate_min |-> F64_MAX, rate_max |-> F64_MIN,
     visible |-> TRUE]

\* push that divides by the time since the previous point, not the nominal interval.
push_ElapsedRate(self, elapsed, count, ims) ==
    LET delta == saturating_sub(count, self.prev_count)
        last == IF self.data = << >> THEN 0 ELSE self.data[Len(self.data)][1]
        rate == RateOf(delta, elapsed - last)
    IN [self EXCEPT !.data = PushBack(@, << elapsed, rate >>),
                    !.prev_count = count,
                    !.latest_rate = rate,
                    !.rate_sum = @ + rate,
                    !.rate_min = Min(@, rate),
                    !.rate_max = Max(@, rate)]

\* push that overwrites the running maximum with the latest rate.
push_MaxOverwritten(self, elapsed, count, ims) ==
    LET delta == saturating_sub(count, self.prev_count)
        rate == RateOf(delta, ims)
    IN [self EXCEPT !.data = PushBack(@, << elapsed, rate >>),
                    !.prev_count = count,
                    !.latest_rate = rate,
                    !.rate_sum = @ + rate,
                    !.rate_min = Min(@, rate),
                    !.rate_max = rate]

push(self, elapsed, count, ims) ==
    LET delta == saturating_sub(count, self.prev_count)
        rate == RateOf(delta, ims)
    IN [self EXCEPT !.data = PushBack(@, << elapsed, rate >>),
                    !.prev_count = count,
                    !.latest_rate = rate,
                    !.rate_sum = @ + rate,
                    !.rate_min = Min(@, rate),
                    !.rate_max = Max(@, rate)]

(* --------------------------------- App --------------------------------- *)

VARIABLES
    sources,        \* App.sources: Vec<SourceHistory>
    total_history,  \* App.total_history
    total_latest,
    total_sum,
    total_min,
    total_max,
    sample_count,
    interval_ms,
    should_quit,
    selected_idx,   \* 0-based, as in the program
    total_visible,
    pc,             \* position of run(): "start", "top", "poll", "tick", "done", "bailed", "error"
    now,            \* Instant::now(), ms since App.start
    next_sample,    \* run()'s next_sample, ms since App.start
    topology,       \* the controllers discover() returned
    initial_counts, \* the seed snapshot given to init_from_topology
    reads,          \* the snapshots given to App::sample so far, oldest first
    mon_pc,         \* position of cmd_monitor(): "off", "loop", "done", "error"
    prev_counts,    \* cmd_monitor's prev_counts
    sample_num,     \* cmd_monitor's sample_num
    row,            \* the rates of the row cmd_monitor printed last
    any_high,       \* the status of that row
    count,          \* the --count argument
    threshold,      \* the --threshold argument, in thousandths
    printed,        \* the rows cmd_monitor has printed, oldest first
    fs,             \* what discover() and read_interrupts() find on the host
    pass1,          \* what a first discover() over fs returned
    pass2,          \* what a second discover() over fs returned
    table_counts    \* what parse_interrupts returned for the table of fs

app_vars ==
    << sources, total_history, total_latest, total_sum, total_min, total_max,
       sample_count, interval_ms, should_quit, selected_idx, total_visible >>

vars ==
    << sources, total_history, total_latest, total_sum, total_min, total_max,
       sample_count, interval_ms, should_quit, selected_idx, total_visible,
       pc, now, next_sample, topology, initial_counts, reads,
       mon_pc, prev_counts, sample_num, row, any_high, count, threshold,
       printed, fs, pass1, pass2, table_counts >>

disc_vars == << fs, pass1, pass2, table_counts >>

\* The state the dashboard loop never touches.
mon_vars ==
    << mon_pc, prev_counts, sample_num, row, any_high, count, threshold,
       printed, fs, pass1, pass2, table_counts >>

\* The number of controller (or device) entries among the first k infos:
\* the running controller_idx / hid_idx of init_from_topology.
RECURSIVE CountKind(_, _, _)
CountKind(infos, k, ctl) ==
    IF k = 0 THEN 0
    ELSE CountKind(infos, k - 1, ctl) + (IF infos[k].is_controller = ctl THEN 1 ELSE 0)

init_from_topology(controllers, counts) ==
    LET infos == all_sources(controllers)
    IN [i \in 1..Len(infos) |->
            SourceHistory_new(infos[i],
                              IF infos[i].irq \in DOMAIN counts THEN counts[infos[i].irq] ELSE 0,
                              CountKind(infos, i - 1, infos[i].is_controller))]

selectable_count == Len(sources) + 1

\* select_prev that stops at the first row instead of wrapping.
prev_idx_Clamped(idx, cnt) ==
    IF idx > 0 THEN idx - 1 ELSE 0

\* The cursor App::select_prev leaves, given the cursor and selectable_count().
prev_idx(idx, cnt) ==
    IF cnt = 0 THEN idx
    ELSE IF idx > 0 THEN idx - 1
    ELSE cnt - 1

\* select_next that wraps one slot too late.
next_idx_OffByOne(idx, cnt) ==
    (idx + 1) % (cnt + 1)

\* The cursor App::select_next leaves.
next_idx(idx, cnt) ==
    IF cnt = 0 THEN idx
    ELSE (idx + 1) % cnt

select_prev ==
    /\ selected_idx' = prev_idx(selected_idx, selectable_count)
    /\ UNCHANGED << sources, total_visible, should_quit >>

select_next ==
    /\ selected_idx' = next_idx(selected_idx, selectable_count)
    /\ UNCHANGED << sources, total_visible, should_quit >>

\* App::toggle_visibility on the series list (idx is 0-based).
ToggleSources(srcs, idx) ==
    IF idx < Len(srcs)
    THEN [srcs EXCEPT ![idx + 1].visible = ~@]
    ELSE srcs

\* toggle_visibility that also flips the TOTAL row when a series is selected.
ToggleTotal_Always(tv, srcs, idx) ==
    ~tv

\* App::toggle_visibility on total_visible.
ToggleTotal(tv, srcs, idx) ==
    IF idx < Len(srcs) THEN tv ELSE ~tv

toggle_visibility ==
    /\ sources' = ToggleSources(sources, selected_idx)
    /\ total_visible' = ToggleTotal(total_visible, sources, selected_idx)
    /\ UNCHANGED << selected_idx, should_quit >>

\* The per-source loop of App::sample.
SampleSources(srcs, counts, elapsed, ims) ==
    [i \in 1..Len(srcs) |->
        IF srcs[i].irq \in DOMAIN counts
        THEN push(srcs[i], elapsed, counts[srcs[i].irq], ims)
        ELSE srcs[i]]

\* total_rate that leaves out the series hidden on the chart.
RECURSIVE TotalRate_VisibleOnly(_, _, _)
TotalRate_VisibleOnly(srcs, counts, k) ==
    IF k = 0 THEN 0
    ELSE TotalRate_VisibleOnly(srcs, counts, k - 1)
         + (IF srcs[k].irq \in DOMAIN counts /\ srcs[k].visible
            THEN srcs[k].latest_rate ELSE 0)

\* total_rate after the loop: latest_rate of every source found in the snapshot.
RECURSIVE TotalRate(_, _, _)
TotalRate(srcs, counts, k) ==
    IF k = 0 THEN 0
    ELSE TotalRate(srcs, counts, k - 1)
         + (IF srcs[k].irq \in DOMAIN counts THEN srcs[k].latest_rate ELSE 0)

\* App::sample that counts every tick twice.
sample_CountsTwice(counts) ==
    LET elapsed == now'
        srcs == SampleSources(sources, counts, elapsed, interval_ms)
        total_rate == TotalRate(srcs, counts, Len(srcs))
    IN /\ sources' = srcs
       /\ total_history' = PushBack(total_history, << elapsed, total_rate >>)
       /\ total_latest' = total_rate
       /\ total_sum' = total_sum + total_rate
       /\ total_min' = Min(total_min, total_rate)
       /\ total_max' = Max(total_max, total_rate)
       /\ sample_count' = sample_count + 2
       /\ reads' = Append(reads, counts)
       /\ UNCHANGED << interval_ms, should_quit, selected_idx, total_visible >>

sample(counts) ==
    LET elapsed == now'
        srcs == SampleSources(sources, counts, elapsed, interval_ms)
        total_rate == TotalRate(srcs, counts, Len(srcs))
    IN /\ sources' = srcs
       /\ total_history' = PushBack(total_history, << elapsed, total_rate >>)
       /\ total_latest' = total_rate
       /\ total_sum' = total_sum + total_rate
       /\ total_min' = Min(total_min, total_rate)
       /\ total_max' = Max(total_max, total_rate)
       /\ sample_count' = sample_count + 1
       /\ reads' = Append(reads, counts)
       /\ UNCHANGED << interval_ms, should_quit, selected_idx, total_visible >>

handle_key(code) ==
    /\ CASE code = "quit" ->
              /\ should_quit' = TRUE
              /\ UNCHANGED << sources, selected_idx, total_visible >>
         [] code = "up" -> select_prev
         [] code = "down" -> select_next
         [] code = "space" -> toggle_visibility
         [] OTHER -> UNCHANGED << sources, selected_idx, total_visible, should_quit >>
    /\ UNCHANGED << total_history, total_latest, total_sum, total_min, total_max,
                    sample_count, interval_ms, reads >>

(* ------------------------------- run loop ------------------------------ *)

\* App::new followed by init_from_topology.
AppNew ==
    /\ sources = init_from_topology(topology, initial_counts)
    /\ total_history = << >>
    /\ total_latest = 0
    /\ total_sum = 0
    /\ total_min = F64_MAX
    /\ total_max = F64_MIN
    /\ sample_count = 0
    /\ should_quit = FALSE
    /\ selected_idx = 0
    /\ total_visible = TRUE
    /\ now = 0
    /\ reads = << >>

\* cmd_monitor is not running.
MonitorOff ==
    /\ mon_pc = "off"
    /\ prev_counts = << >>
    /\ sample_num = 0
    /\ row = << >>
    /\ any_high = FALSE
    /\ count = 0
    /\ threshold = 0
    /\ printed = << >>

\* No discovery pass is being looked at.
DiscoveryOff ==
    /\ fs = None
    /\ pass1 = None
    /\ pass2 = None
    /\ table_counts = None

\* run() after discover() and the first read of the counters.
Init ==
    /\ topology \in Topologies
    /\ initial_counts \in InitialSnapshots
    /\ interval_ms \in Intervals
    /\ AppNew
    /\ pc = "start"
    /\ next_sample = 0
    /\ MonitorOff
    /\ DiscoveryOff

\* The two bail-outs of run(), then next_sample = Instant::now() + interval.
Start ==
    /\ pc = "start"
    /\ IF topology = << >> \/ Len(sources) = 0
       THEN pc' = "bailed" /\ UNCHANGED next_sample
       ELSE pc' = "top" /\ next_sample' = now + interval_ms
    /\ UNCHANGED << app_vars, now, topology, initial_counts, reads, mon_vars >>

\* while !app.should_quit: leave the loop.
LoopExit ==
    /\ pc = "top"
    /\ should_quit
    /\ pc' = "done"
    /\ UNCHANGED << app_vars, now, next_sample, topology, initial_counts, reads, mon_vars >>

\* A loop that draws the next frame without looking at should_quit.
Draw_IgnoresQuit ==
    /\ pc = "top"
    /\ pc' = "poll"
    /\ UNCHANGED << app_vars, now, next_sample, topology, initial_counts, reads, mon_vars >>

\* while !app.should_quit: draw a frame.
Draw ==
    /\ pc = "top"
    /\ ~should_quit
    /\ pc' = "poll"
    /\ UNCHANGED << app_vars, now, next_sample, topology, initial_counts, reads, mon_vars >>

\* draw, poll or read of the terminal returns an error.
TerminalError ==
    /\ pc \in {"top", "poll"}
    /\ pc = "top" => ~should_quit
    /\ pc' = "error"
    /\ UNCHANGED << app_vars, now, next_sample, topology, initial_counts, reads, mon_vars >>

\* event::poll returns true w ms after it was called and the event is handled.
\* now + w = next_sample is the event that arrives just before the deadline,
\* with the deadline reached by the time the loop gets to its tick check.
PollKey ==
    /\ pc = "poll"
    /\ \E w \in KeyWaits :
         /\ w = 0 \/ now + w <= next_sample
         /\ now' = now + w
    /\ \E code \in Keys : handle_key(code)
    /\ pc' = "tick"
    /\ UNCHANGED << next_sample, topology, initial_counts, mon_vars >>

\* event::poll times out; the loop reaches its tick check late ms after that.
PollTimeoutBy(lates) ==
    /\ pc = "poll"
    /\ \E late \in lates : now' = Max(now, next_sample) + late
    /\ pc' = "tick"
    /\ UNCHANGED << app_vars, next_sample, topology, initial_counts, reads, mon_vars >>

PollTimeout == PollTimeoutBy(Lateness)

\* if Instant::now() >= next_sample: read the counters and sample.
TickWith(snapshots, max_ticks) ==
    /\ pc = "tick"
    /\ now >= next_sample
    /\ sample_count < max_ticks
    /\ now' = now
    /\ \E counts \in snapshots : sample(counts)
    /\ next_sample' = now' + interval_ms
    /\ pc' = "top"
    /\ UNCHANGED << topology, initial_counts, mon_vars >>

Tick == TickWith(Snapshots, MaxTicks)

\* A failed read that still counts as a tick of the dashboard.
TickReadError_CountsTick ==
    /\ pc = "tick"
    /\ now >= next_sample
    /\ pc' = "error"
    /\ sample_count' = sample_count + 1
    /\ UNCHANGED << sources, total_history, total_latest, total_sum, total_min, total_max,
                    interval_ms, should_quit, selected_idx, total_visible,
                    now, next_sample, topology, initial_counts, reads, mon_vars >>

\* if Instant::now() >= next_sample: read_interrupts()? fails.
TickReadError ==
    /\ pc = "tick"
    /\ now >= next_sample
    /\ pc' = "error"
    /\ UNCHANGED << app_vars, now, next_sample, topology, initial_counts, reads, mon_vars >>

\* A tick check that may pass over a deadline that has been reached.
TickSkip_EvenWhenDue ==
    /\ pc = "tick"
    /\ pc' = "top"
    /\ UNCHANGED << app_vars, now, next_sample, topology, initial_counts, reads, mon_vars >>

\* The deadline has not passed: no sample in this iteration.
TickSkip ==
    /\ pc = "tick"
    /\ now < next_sample
    /\ pc' = "top"
    /\ UNCHANGED << app_vars, now, next_sample, topology, initial_counts, reads, mon_vars >>

Next ==
    \/ Start
    \/ LoopExit
    \/ Draw
    \/ TerminalError
    \/ PollKey
    \/ PollTimeout
    \/ Tick
    \/ TickReadError
    \/ TickSkip

Spec == Init /\ [][Next]_vars

(* ------------------------------- long run ------------------------------ *)

\* A run left alone (no key, no error) until its histories have been full
\* for WindowExtra ticks, every tick on time, reading WindowSnapshot.
PollOnTime == PollTimeoutBy({0})

WindowTick ==
    TickWith({WindowSnapshot(sample_count + 1)}, MAX_POINTS + WindowExtra)

NextWindow ==
    \/ Start
    \/ Draw
    \/ PollOnTime
    \/ WindowTick

SpecWindow == Init /\ [][NextWindow]_vars

(* ------------------------------- monitor ------------------------------- *)

\* HashMap::insert
Insert(map, key, value) ==
    [x \in DOMAIN map \cup {key} |-> IF x = key THEN value ELSE map[x]]

\* The for-loop of cmd_monitor over the first k sources: the rates printed and
\* prev_counts after it.
RECURSIVE MonitorRow(_, _, _, _, _)
MonitorRow(infos, k, current_map, prev, ims) ==
    IF k = 0 THEN [prev |-> prev, rates |-> << >>]
    ELSE LET before == MonitorRow(infos, k - 1, current_map, prev, ims)
             irq == infos[k].irq
             curr == IF irq \in DOMAIN current_map THEN current_map[irq] ELSE 0
             old == IF irq \in DOMAIN before.prev THEN before.prev[irq] ELSE 0
             delta == saturating_sub(curr, old)
             rate == RateOf(delta, ims)
         IN [prev |-> Insert(before.prev, irq, curr),
             rates |-> Append(before.rates, rate)]

\* A loop body that flags a row whose rate only reaches the threshold.
monitor_tick_HighAtThreshold(current_map) ==
    LET infos == all_sources(topology)
        out == MonitorRow(infos, Len(infos), current_map, prev_counts, interval_ms)
    IN /\ sample_num' = sample_num + 1
       /\ row' = out.rates
       /\ prev_counts' = out.prev
       /\ any_high' = (\E k \in 1..Len(out.rates) : out.rates[k] >= threshold)
       /\ printed' = Append(printed, [num |-> sample_num', rates |-> out.rates,
                                       high |-> any_high'])
       /\ mon_pc' = IF count > 0 /\ sample_num' >= count THEN "done" ELSE "loop"
       /\ UNCHANGED << count, threshold >>

\* One iteration of cmd_monitor's loop, reading current_map.
monitor_tick(current_map) ==
    LET infos == all_sources(topology)
        out == MonitorRow(infos, Len(infos), current_map, prev_counts, interval_ms)
    IN /\ sample_num' = sample_num + 1
       /\ row' = out.rates
       /\ prev_counts' = out.prev
       /\ any_high' = (\E k \in 1..Len(out.rates) : out.rates[k] > threshold)
       /\ printed' = Append(printed, [num |-> sample_num', rates |-> out.rates,
                                       high |-> any_high'])
       /\ mon_pc' = IF count > 0 /\ sample_num' >= count THEN "done" ELSE "loop"
       /\ UNCHANGED << count, threshold >>

(* ------------------------------ rate check ----------------------------- *)

\* The dashboard and cmd_monitor, each seeded with the same table and each
\* taking one tick on the same later table: one row (IRQ 42), every counter
\* value against each seed.
InitRate ==
    /\ topology = TopoNoGpio
    /\ initial_counts \in RateSeeds
    /\ interval_ms \in RateIntervals
    /\ AppNew
    /\ pc = "start"
    /\ next_sample = 0
    /\ mon_pc = "loop"
    /\ prev_counts = initial_counts
    /\ sample_num = 0
    /\ row = << >>
    /\ any_high = FALSE
    /\ count = 1
    /\ threshold = DefaultThreshold
    /\ printed = << >>
    /\ DiscoveryOff

RateTick == TickWith(RateSnapshots, 1)

\* cmd_monitor's tick on the table the dashboard sampled.
RateMonitorTick ==
    /\ mon_pc = "loop"
    /\ Len(reads) > sample_num
    /\ monitor_tick(reads[sample_num + 1])
    /\ UNCHANGED << app_vars, pc, now, next_sample, topology, initial_counts, reads,
                    disc_vars >>

\* The frame drawn before the first tick.
RateDraw == sample_count = 0 /\ Draw

NextRate ==
    \/ Start
    \/ RateDraw
    \/ PollOnTime
    \/ RateTick
    \/ RateMonitorTick

SpecRate == InitRate /\ [][NextRate]_vars

(* -------------------------------- y axis ------------------------------- *)

\* const TARGET_Y_LABELS: f64 = 5.0
TARGET_Y_LABELS == 5

\* 10^exponent for exponent = floor(log10(max_value / TARGET_Y_LABELS)), in
\* thousandths: the largest power of ten p (from 0.001 up) with
\* p <= max_value / TARGET_Y_LABELS.  Values under 0.005 are not representable.
RECURSIVE PowerOfTen(_, _)
PowerOfTen(max_value, p) ==
    IF 10 * p * TARGET_Y_LABELS <= max_value
    THEN PowerOfTen(max_value, 10 * p)
    ELSE p

\* nice_step: 1, 2, 5 or 10 times a power of ten, in thousandths.
\* fraction <= f is raw_step <= f * 10^exponent, i.e. max_value <= 5 * f * p.
nice_step(max_value) ==
    IF max_value <= 0 THEN 1000
    ELSE LET p == PowerOfTen(max_value, 1)
             nice_fraction ==
                 IF max_value <= 1 * p * TARGET_Y_LABELS THEN 1
                 ELSE IF max_value <= 2 * p * TARGET_Y_LABELS THEN 2
                 ELSE IF max_value <= 5 * p * TARGET_Y_LABELS THEN 5
                 ELSE 10
         IN nice_fraction * p

\* (value / step).ceil() * step, for value >= 0 and step > 0.
ceil_to_step(value, step) ==
    ((value + step - 1) \div step) * step

\* max = max.max(rate) over the points of one history.
RECURSIVE MaxOfPoints(_, _)
MaxOfPoints(data, max) ==
    IF data = << >> THEN max
    ELSE MaxOfPoints(Tail(data), Max(max, Head(data)[2]))

\* The loop of y_max over the visible sources.
RECURSIVE MaxOfVisible(_, _)
MaxOfVisible(srcs, max) ==
    IF srcs = << >> THEN max
    ELSE MaxOfVisible(Tail(srcs),
                      IF Head(srcs).visible THEN MaxOfPoints(Head(srcs).data, max) ELSE max)

\* y_max that looks at every series, hidden or not.
y_max_AllSeries(srcs, tv, th) ==
    LET all == [i \in 1..Len(srcs) |-> [srcs[i] EXCEPT !.visible = TRUE]]
        max == MaxOfPoints(th, MaxOfVisible(all, 0))
        raw_max == Max((max * 11) \div 10, 10000)
    IN ceil_to_step(raw_max, nice_step(raw_max))

\* App::y_max for the series srcs, total_visible tv and total_history th.
\* max * 1.1 is exact here: every rate of the model is a multiple of 0.01.
y_max_of(srcs, tv, th) ==
    LET max1 == MaxOfVisible(srcs, 0)
        max == IF tv THEN MaxOfPoints(th, max1) ELSE max1
        raw_max == Max((max * 11) \div 10, 10000)
        step == nice_step(raw_max)
    IN ceil_to_step(raw_max, step)

y_max == y_max_of(sources, total_visible, total_history)

\* Counter values of the axis check.
AxisCounts == {0, 42, 910}

AxisSnapshots ==
    {[i \in {"42", "44"} |-> IF i = "42" THEN a ELSE b] : a, b \in AxisCounts}

\* Ticks of the axis check.
AxisTicks == 2

\* A two-series dashboard seeded with zero counts.
InitAxis ==
    /\ topology = TopoPair
    /\ initial_counts = [i \in {"42", "44"} |-> 0]
    /\ interval_ms \in Intervals
    /\ AppNew
    /\ pc = "start"
    /\ next_sample = 0
    /\ MonitorOff
    /\ DiscoveryOff

\* A key other than quit that is waiting when the poll starts.
AxisKey == PollKey /\ now' = now /\ ~should_quit'

AxisTick == TickWith(AxisSnapshots, AxisTicks)

NextAxis ==
    \/ Start
    \/ Draw
    \/ AxisKey
    \/ PollOnTime
    \/ AxisTick
    \/ TickSkip

SpecAxis == InitAxis /\ [][NextAxis]_vars

(* ----------------------------- monitor run ----------------------------- *)

\* Topologies with at least one interrupt source to track.
MonitorTopologies == {TopoPair, TopoNoGpio}

\* The --count argument: unlimited, or a number of rows.
MonitorCounts == 0..MaxTicks

\* The --threshold argument in thousandths: 0, 3.0 and the default 100.0.
Thresholds == {0, 3000, DefaultThreshold}

\* The dashboard and cmd_monitor started on the same host: same topology,
\* same interval and same seed table.
InitMonitor ==
    /\ topology \in MonitorTopologies
    /\ initial_counts \in InitialSnapshots
    /\ interval_ms \in Intervals
    /\ AppNew
    /\ pc = "start"
    /\ next_sample = 0
    /\ mon_pc = "loop"
    /\ prev_counts = initial_counts
    /\ sample_num = 0
    /\ row = << >>
    /\ any_high = FALSE
    /\ count \in MonitorCounts
    /\ threshold \in Thresholds
    /\ printed = << >>
    /\ DiscoveryOff

\* cmd_monitor's k-th tick reads the table the dashboard read at its k-th tick.
MonitorTick ==
    /\ mon_pc = "loop"
    /\ Len(reads) > sample_num
    /\ monitor_tick(reads[sample_num + 1])
    /\ UNCHANGED << app_vars, pc, now, next_sample, topology, initial_counts, reads,
                    disc_vars >>

\* sample_num += 1, then read_interrupts()? fails: cmd_monitor returns the error.
MonitorReadError ==
    /\ mon_pc = "loop"
    /\ sample_num < MaxTicks
    /\ sample_num' = sample_num + 1
    /\ mon_pc' = "error"
    /\ UNCHANGED << app_vars, pc, now, next_sample, topology, initial_counts, reads,
                    prev_counts, row, any_high, count, threshold, printed, disc_vars >>

NextMonitor ==
    \/ Start
    \/ Draw
    \/ PollOnTime
    \/ Tick
    \/ TickReadError
    \/ MonitorTick
    \/ MonitorReadError

SpecMonitor == InitMonitor /\ [][NextMonitor]_vars

(* --------------------------------- text -------------------------------- *)

\* Strings are Rust's &str; the characters used are ASCII and the only white
\* space is the space (a file is held as the sequence of its lines).

CharAt(s, i) == SubSeq(s, i, i)

\* str::contains
Contains(s, sub) ==
    \E i \in 1..(Len(s) - Len(sub) + 1) : SubSeq(s, i, i + Len(sub) - 1) = sub

\* str::starts_with
starts_with(s, prefix) ==
    Len(s) >= Len(prefix) /\ SubSeq(s, 1, Len(prefix)) = prefix

\* str::strip_prefix
strip_prefix(s, prefix) ==
    IF starts_with(s, prefix) THEN Some(SubSeq(s, Len(prefix) + 1, Len(s))) ELSE None

RECURSIVE trim_start(_)
trim_start(s) ==
    IF s # "" /\ CharAt(s, 1) = " " THEN trim_start(SubSeq(s, 2, Len(s))) ELSE s

\* str::trim_end_matches(c)
RECURSIVE trim_end_matches(_, _)
trim_end_matches(s, c) ==
    IF s # "" /\ CharAt(s, Len(s)) = c
    THEN trim_end_matches(SubSeq(s, 1, Len(s) - 1), c)
    ELSE s

\* str::trim
trim(s) == trim_end_matches(trim_start(s), " ")

\* str::split at every character of seps; empty parts are kept.
RECURSIVE split(_, _)
split(s, seps) ==
    LET hits == {i \in 1..Len(s) : CharAt(s, i) \in seps}
    IN IF hits = {} THEN << s >>
       ELSE LET i == CHOOSE i \in hits : \A j \in hits : i <= j
            IN << SubSeq(s, 1, i - 1) >> \o split(SubSeq(s, i + 1, Len(s)), seps)

\* str::split_whitespace
split_whitespace(s) == SelectSeq(split(s, {" "}), LAMBDA part : part # "")

UpperCase == "ABCDEFGHIJKLMNOPQRSTUVWXYZ"

LowerCase == "abcdefghijklmnopqrstuvwxyz"

\* The digits of radix 10 and, with the letters, of radix 16.
DigitChars == "0123456789abcdef"

\* char::is_ascii_uppercase of the one-character string c
is_ascii_uppercase(c) == Len(c) = 1 /\ Contains(UpperCase, c)

\* The position of the character c in alphabet, 0 if it is not in it.
IndexIn(alphabet, c) ==
    LET at == {i \in 1..Len(alphabet) : CharAt(alphabet, i) = c}
    IN IF at = {} THEN 0 ELSE CHOOSE i \in at : TRUE

\* str::to_lowercase
RECURSIVE to_lowercase(_)
to_lowercase(s) ==
    IF s = "" THEN ""
    ELSE LET c == CharAt(s, 1)
             k == IndexIn(UpperCase, c)
         IN (IF k = 0 THEN c ELSE CharAt(LowerCase, k)) \o to_lowercase(SubSeq(s, 2, Len(s)))

\* The value of the numeral s in radix, added to acc * radix^Len(s); -1 when a
\* character is not a digit of the radix or the value passes max.
RECURSIVE Numeral(_, _, _, _)
Numeral(s, radix, max, acc) ==
    IF s = "" THEN acc
    ELSE LET d == IndexIn(DigitChars, to_lowercase(CharAt(s, 1))) - 1
             v == acc * radix + d
         IN IF d < 0 \/ d >= radix \/ v > max THEN -1
            ELSE Numeral(SubSeq(s, 2, Len(s)), radix, max, v)

\* uN::from_str_radix(s, radix) for an unsigned type with largest value max,
\* and str::parse::<uN>() with radix 10: an optional + sign, then digits.
from_str_radix(s, radix, max) ==
    LET digits == IF starts_with(s, "+") THEN SubSeq(s, 2, Len(s)) ELSE s
        v == Numeral(digits, radix, max, 0)
    IN IF digits = "" \/ v < 0 THEN None ELSE Some(v)

U8_MAX == 255

U16_MAX == 65535

\* u64::MAX, cut to what a counter of the model can hold.
U64_MAX == 2000000000

(* ---------------------------- counter table ---------------------------- *)

\* A parser that adds every integer token of the line, wherever it stands.
RECURSIVE SumAllNumbers(_, _, _)
SumAllNumbers(parts, idx, cpu_count) ==
    IF idx < Len(parts)
    THEN LET n == from_str_radix(parts[idx + 1], 10, U64_MAX)
         IN (IF n # None THEN n[1] ELSE 0) + SumAllNumbers(parts, idx + 1, cpu_count)
    ELSE 0

\* The while-loop of parse_interrupt_line: the sum of parts[idx..] as long as
\* idx <= cpu_count and the token parses as u64.  idx counts from 0 as in the
\* program, parts[0] being the first element of the sequence.
RECURSIVE SumColumns(_, _, _)
SumColumns(parts, idx, cpu_count) ==
    IF idx < Len(parts) /\ idx <= cpu_count
    THEN LET n == from_str_radix(parts[idx + 1], 10, U64_MAX)
         IN IF n # None THEN n[1] + SumColumns(parts, idx + 1, cpu_count) ELSE 0
    ELSE 0

\* Option<InterruptSource>
parse_interrupt_line(line, cpu_count) ==
    LET parts == split_whitespace(trim(line))
    IN IF trim(line) = "" \/ parts = << >> THEN None
       ELSE Some([irq |-> trim_end_matches(parts[1], ":"),
                  count |-> SumColumns(parts, 1, cpu_count)])

\* The line loop of parse_interrupts.
RECURSIVE ParseLines(_, _)
ParseLines(lines, cpu_count) ==
    IF lines = << >> THEN << >>
    ELSE parse_interrupt_line(Head(lines), cpu_count) \o ParseLines(Tail(lines), cpu_count)

\* Result<Vec<InterruptSource>> for a file holding the lines of content.
parse_interrupts(content) ==
    IF content = << >> THEN [ok |-> FALSE, sources |-> << >>]
    ELSE [ok |-> TRUE,
          sources |-> ParseLines(Tail(content), Len(split_whitespace(Head(content))))]

\* read_interrupts on a host: read_to_string(..)?, then parse_interrupts.
read_interrupts(host) ==
    IF host.interrupts = None THEN [ok |-> FALSE, sources |-> << >>]
    ELSE parse_interrupts(host.interrupts[1])

(* --------------------------- discovery pass ---------------------------- *)

\* A heuristic that takes the first token of the line that looks like an ACPI id.
extract_acpi_name_First(line) ==
    LET parts == split_whitespace(line)
        hits == {i \in 1..Len(parts) :
                    /\ Contains(parts[i], ":")
                    /\ is_ascii_uppercase(CharAt(parts[i], 1))
                    /\ ~Contains(parts[i], "IR-")
                    /\ ~Contains(parts[i], "PCI-")}
    IN IF hits = {} THEN None
       ELSE Some(parts[CHOOSE i \in hits : \A j \in hits : i <= j])

\* The first match of the reversed token list: the last token that holds a
\* colon, starts with an upper-case letter and holds neither IR- nor PCI-.
extract_acpi_name(line) ==
    LET parts == split_whitespace(line)
        hits == {i \in 1..Len(parts) :
                    /\ Contains(parts[i], ":")
                    /\ is_ascii_uppercase(CharAt(parts[i], 1))
                    /\ ~Contains(parts[i], "IR-")
                    /\ ~Contains(parts[i], "PCI-")}
    IN IF hits = {} THEN None
       ELSE Some(parts[CHOOSE i \in hits : \A j \in hits : j <= i])

\* for part in line.split([' ', ',']): controller_irqs.insert(part.trim(), irq)
RECURSIVE ControllerParts(_, _, _)
ControllerParts(parts, irq, controller_irqs) ==
    IF parts = << >> THEN controller_irqs
    ELSE ControllerParts(Tail(parts), irq,
                         IF Contains(Head(parts), "i2c_designware")
                         THEN Insert(controller_irqs, trim(Head(parts)), irq)
                         ELSE controller_irqs)

\* The loop of discover over the lines of the counter table: the two maps
\* gpio_irqs and controller_irqs.
RECURSIVE ScanInterrupts(_, _)
ScanInterrupts(lines, maps) ==
    IF lines = << >> THEN maps
    ELSE LET line == trim(Head(lines))
             irq == trim(Head(split(line, {":"})))
             acpi_name == extract_acpi_name(line)
             gpio == IF (Contains(line, "intel-gpio") \/ Contains(line, "pinctrl"))
                        /\ acpi_name # None
                     THEN Insert(maps.gpio_irqs, acpi_name[1], irq)
                     ELSE maps.gpio_irqs
             ctl == IF Contains(line, "i2c_designware")
                    THEN ControllerParts(split(line, {" ", ","}), irq, maps.controller_irqs)
                    ELSE maps.controller_irqs
         IN ScanInterrupts(Tail(lines),
                           IF line = "" THEN maps
                           ELSE [gpio_irqs |-> gpio, controller_irqs |-> ctl])

\* The first path segment that starts with i2c_designware., else "unknown".
extract_controller_name(path) ==
    LET parts == split(path, {"/"})
        hits == {i \in 1..Len(parts) : starts_with(parts[i], "i2c_designware.")}
    IN IF hits = {} THEN "unknown"
       ELSE parts[CHOOSE i \in hits : \A j \in hits : i <= j]

\* The first path segment i2c-N with N a u8, else 0.
extract_bus_num(path) ==
    LET parts == split(path, {"/"})
        NumOf(part) == IF starts_with(part, "i2c-")
                       THEN from_str_radix(strip_prefix(part, "i2c-")[1], 10, U8_MAX)
                       ELSE None
        hits == {i \in 1..Len(parts) : NumOf(parts[i]) # None}
    IN IF hits = {} THEN 0
       ELSE NumOf(parts[CHOOSE i \in hits : \A j \in hits : i <= j])[1]

\* The first loop of determine_device_type: the first input name that holds a
\* keyword decides.
RECURSIVE TypeByInputName(_)
TypeByInputName(input_names) ==
    IF input_names = << >> THEN None
    ELSE LET name_lower == to_lowercase(Head(input_names))
         IN IF Contains(name_lower, "touchpad") THEN Some("Touchpad")
            ELSE IF Contains(name_lower, "touchscreen") THEN Some("Touchscreen")
            ELSE IF Contains(name_lower, "stylus") \/ Contains(name_lower, "pen")
                 THEN Some("Stylus")
            ELSE IF Contains(name_lower, "keyboard") THEN Some("Keyboard")
            ELSE TypeByInputName(Tail(input_names))

\* The match on device.driver; 0x093A is 2362.
TypeByDriver(device) ==
    CASE device.driver = "hid-multitouch" ->
             IF device.vendor_id = 2362 THEN "Touchpad" ELSE "Touchscreen"
      [] device.driver = "hid-sensor-hub" -> "Sensor Hub"
      [] device.driver = "hid-generic" ->
             IF \E i \in 1..Len(device.input_names) :
                    \/ Contains(device.input_names[i], "Radio")
                    \/ Contains(device.input_names[i], "Consumer")
             THEN "Keyboard/Controls"
             ELSE "Input Device"
      [] OTHER -> "HID Device"

determine_device_type(device) ==
    LET by_name == TypeByInputName(device.input_names)
    IN IF by_name # None THEN by_name[1] ELSE TypeByDriver(device)

\* for line in uevent.lines(): the last DRIVER= line wins.
RECURSIVE DriverOf(_, _)
DriverOf(lines, driver) ==
    IF lines = << >> THEN driver
    ELSE DriverOf(Tail(lines),
                  IF starts_with(Head(lines), "DRIVER=")
                  THEN strip_prefix(Head(lines), "DRIVER=")[1]
                  ELSE driver)

\* The loop over the input directory: the trimmed content of every name file
\* that can be read.
RECURSIVE InputNames(_)
InputNames(names) ==
    IF names = << >> THEN << >>
    ELSE (IF Head(names) # None THEN << trim(Head(names)[1]) >> ELSE << >>)
         \o InputNames(Tail(names))

\* uevent.contains(acpi_name), the file held as its lines.
UeventContains(lines, acpi_name) ==
    acpi_name = "" \/ \E i \in 1..Len(lines) : Contains(lines[i], acpi_name)

\* discover_hid_device that fails when /sys/bus/hid/devices does not exist.
discover_hid_device_NeedsHidDir(acpi_name, controller, bus_num, gpio_irqs, hid_dir) ==
    [ok |-> hid_dir.exists /\ hid_dir.readable,
     device |-> [acpi_name |-> acpi_name, vendor_id |-> 0, product_id |-> 0,
                 device_type |-> "HID Device", driver |-> "", bus_num |-> bus_num,
                 controller |-> controller,
                 gpio_irq |-> IF acpi_name \in DOMAIN gpio_irqs
                              THEN Some(gpio_irqs[acpi_name]) ELSE None,
                 input_names |-> << >>]]

\* Result<HidDevice>: ok is FALSE when read_dir(/sys/bus/hid/devices)? fails.
discover_hid_device(acpi_name, controller, bus_num, gpio_irqs, hid_dir) ==
    LET device == [acpi_name |-> acpi_name, vendor_id |-> 0, product_id |-> 0,
                   device_type |-> "Unknown", driver |-> "", bus_num |-> bus_num,
                   controller |-> controller,
                   gpio_irq |-> IF acpi_name \in DOMAIN gpio_irqs
                                THEN Some(gpio_irqs[acpi_name]) ELSE None,
                   input_names |-> << >>]
        entries == hid_dir.entries
        hits == {i \in 1..Len(entries) :
                    /\ starts_with(entries[i].name, "0018:")
                    /\ entries[i].uevent # None
                    /\ UeventContains(entries[i].uevent[1], acpi_name)}
        found ==
            IF ~hid_dir.exists \/ hits = {} THEN device
            ELSE LET entry == entries[CHOOSE i \in hits : \A j \in hits : i <= j]
                     parts == split(entry.name, {":"})
                     vendor == from_str_radix(parts[2], 16, U16_MAX)
                     product == from_str_radix(Head(split(parts[3], {"."})), 16, U16_MAX)
                 IN [device EXCEPT
                        !.vendor_id = IF Len(parts) >= 3 /\ vendor # None THEN vendor[1] ELSE 0,
                        !.product_id = IF Len(parts) >= 3 /\ product # None THEN product[1] ELSE 0,
                        !.driver = DriverOf(entry.uevent[1], ""),
                        !.input_names = IF entry.input.exists
                                        THEN InputNames(entry.input.names) ELSE << >>]
    IN [ok |-> ~(hid_dir.exists /\ ~hid_dir.readable),
        device |-> [found EXCEPT !.device_type = determine_device_type(found)]]

\* A grouping that starts the controller's device list afresh at every device.
AddDevice_Replace(controllers, controller_name, bus_num, irq, device) ==
    Insert(controllers, controller_name,
           [name |-> controller_name, bus_num |-> bus_num, irq |-> irq,
            hid_devices |-> << device >>])

\* controllers.entry(controller_name).or_insert_with(..).hid_devices.push(device)
AddDevice(controllers, controller_name, bus_num, irq, device) ==
    LET controller ==
            IF controller_name \in DOMAIN controllers THEN controllers[controller_name]
            ELSE [name |-> controller_name, bus_num |-> bus_num, irq |-> irq,
                  hid_devices |-> << >>]
    IN Insert(controllers, controller_name,
              [controller EXCEPT !.hid_devices = Append(@, device)])

\* The loop of discover over the entries of the i2c_hid_acpi driver directory:
\* the controllers map, or ok = FALSE when discover_hid_device(..)? failed.
RECURSIVE DriverLoop(_, _, _, _)
DriverLoop(entries, maps, hid_dir, controllers) ==
    IF entries = << >> THEN [ok |-> TRUE, controllers |-> controllers]
    ELSE IF ~starts_with(Head(entries).name, "i2c-")
         THEN DriverLoop(Tail(entries), maps, hid_dir, controllers)
    ELSE LET acpi_name == strip_prefix(Head(entries).name, "i2c-")[1]
             real_path == IF Head(entries).link = None THEN "" ELSE Head(entries).link[1]
             controller_name == extract_controller_name(real_path)
             bus_num == extract_bus_num(real_path)
             hid_device == discover_hid_device(acpi_name, controller_name, bus_num,
                                               maps.gpio_irqs, hid_dir)
             irq == IF controller_name \in DOMAIN maps.controller_irqs
                    THEN Some(maps.controller_irqs[controller_name]) ELSE None
         IN IF ~hid_device.ok THEN [ok |-> FALSE, controllers |-> controllers]
            ELSE DriverLoop(Tail(entries), maps, hid_dir,
                            AddDevice(controllers, controller_name, bus_num, irq,
                                      hid_device.device))

\* The orders HashMap::into_values can yield the values of the keys in.
Orders(keys) ==
    {order \in [1..Cardinality(keys) -> keys] : \A k \in keys : \E i \in DOMAIN order : order[i] = k}

\* One step of a stable sort: c goes after every element whose key is not larger.
RECURSIVE InsertByBus(_, _)
InsertByBus(sorted, c) ==
    IF sorted = << >> THEN << c >>
    ELSE IF Head(sorted).bus_num <= c.bus_num
         THEN << Head(sorted) >> \o InsertByBus(Tail(sorted), c)
    ELSE << c >> \o sorted

\* controller_vec.sort_by_key(|c| c.bus_num), which is stable.
RECURSIVE sort_by_key(_)
sort_by_key(controller_vec) ==
    IF controller_vec = << >> THEN << >>
    ELSE InsertByBus(sort_by_key(SubSeq(controller_vec, 1, Len(controller_vec) - 1)),
                     controller_vec[Len(controller_vec)])

\* Err(..) of discover.
DiscoverErr ==
    [ok |-> FALSE, controllers |-> << >>, gpio_irqs |-> << >>, controller_irqs |-> << >>]

\* The results discover() can return on a host: one for every order in which
\* the HashMap of controllers hands out its values.
discover(host) ==
    IF host.interrupts = None THEN {DiscoverErr}
    ELSE LET maps == ScanInterrupts(host.interrupts[1],
                                    [gpio_irqs |-> << >>, controller_irqs |-> << >>])
             looped == IF ~host.driver_dir.exists THEN [ok |-> TRUE, controllers |-> << >>]
                       ELSE IF ~host.driver_dir.readable
                            THEN [ok |-> FALSE, controllers |-> << >>]
                       ELSE DriverLoop(host.driver_dir.entries, maps, host.hid_dir, << >>)
         IN IF ~looped.ok THEN {DiscoverErr}
            ELSE {[ok |-> TRUE,
                   controllers |->
                       sort_by_key([i \in DOMAIN order |-> looped.controllers[order[i]]]),
                   gpio_irqs |-> maps.gpio_irqs,
                   controller_irqs |-> maps.controller_irqs] :
                  order \in Orders(DOMAIN looped.controllers)}

(* --------------------------- discovery inputs -------------------------- *)

\* The counter table as the kernel holds it: the number of CPUs of the header
\* and, for every row, the id, the per-CPU counts and the annotation text.
Row(id, counts, annotation) == [id |-> id, counts |-> counts, annotation |-> annotation]

\* Two CPUs: a controller line shared with a DMA engine, a second controller,
\* a GPIO line whose chip is itself named by an ACPI id, and a named row.
TableLaptop ==
    [cpus |-> 2,
     rows |-> << Row("42", << 100, 50 >>, "IO-APIC 42-fasteoi idma64.0, i2c_designware.0"),
                 Row("43", << 7, 0 >>, "PCI-MSI 12346-edge i2c_designware.1"),
                 Row("203", << 0, 21323 >>, "intel-gpio INTC1055:00 18 PIXA3854:00"),
                 Row("NMI", << 0, 0 >>, "Non-maskable interrupts") >>]

\* Four CPUs, with rows that have fewer counter columns than the header has
\* CPUs: one annotated with a chip name first, one with a pin number first,
\* one with no annotation.
TableShortRows ==
    [cpus |-> 4,
     rows |-> << Row("42", << 12345, 6789, 0, 0 >>, "PCI-MSI 12345-edge i2c_designware.0"),
                 Row("200", << 0, 1306 >>, "intel-gpio 33 FRMW0005:00"),
                 Row("77", << 5 >>, "33 pinctrl_amd ELAN0001:00"),
                 Row("ERR", << 0 >>, "") >>]

\* No GPIO line and no controller line.
TablePlain ==
    [cpus |-> 2,
     rows |-> << Row("0", << 23, 0 >>, "IO-APIC 2-edge timer"),
                 Row("LOC", << 123456, 234567 >>, "Local timer interrupts") >>]

KernelTables == {TableLaptop, TableShortRows, TablePlain}

\* The header line of /proc/interrupts for CPUs 0..cpus-1.
RECURSIVE HeaderLine(_)
HeaderLine(cpus) ==
    IF cpus = 0 THEN "    "
    ELSE HeaderLine(cpus - 1) \o "       CPU" \o ToString(cpus - 1)

RECURSIVE CountColumns(_)
CountColumns(counts) ==
    IF counts = << >> THEN ""
    ELSE "  " \o ToString(Head(counts)) \o CountColumns(Tail(counts))

\* The text of /proc/interrupts for a table, as the sequence of its lines.
ProcInterrupts(table) ==
    << HeaderLine(table.cpus) >>
    \o [i \in 1..Len(table.rows) |->
           " " \o table.rows[i].id \o ":" \o CountColumns(table.rows[i].counts)
               \o (IF table.rows[i].annotation = "" THEN ""
                   ELSE "   " \o table.rows[i].annotation)]

\* A directory: missing, present but not listable, or its entries in the
\* order read_dir yields them.
DirAbsent == [exists |-> FALSE, readable |-> FALSE, entries |-> << >>]

DirUnreadable == [exists |-> TRUE, readable |-> FALSE, entries |-> << >>]

Dir(entries) == [exists |-> TRUE, readable |-> TRUE, entries |-> entries]

\* Entries of /sys/bus/i2c/drivers/i2c_hid_acpi: a name and the target of the link.
Bound(name, link) == [name |-> name, link |-> link]

BindFile == Bound("bind", None)

PixaOnBus0 ==
    Bound("i2c-PIXA3854:00",
          Some("../../../../devices/pci0000:00/0000:00:15.0/i2c_designware.0/i2c-0/i2c-PIXA3854:00"))

FrmwOnBus0 ==
    Bound("i2c-FRMW0005:00",
          Some("../../../../devices/pci0000:00/0000:00:15.0/i2c_designware.0/i2c-0/i2c-FRMW0005:00"))

ElanOnBus5 ==
    Bound("i2c-ELAN0001:00",
          Some("../../../../devices/pci0000:00/0000:00:19.1/i2c_designware.1/i2c-5/i2c-ELAN0001:00"))

\* A link that cannot be read.
ElanNoLink == Bound("i2c-ELAN0001:00", None)

\* A link target with no controller segment and a bus number that is not a u8.
ElanOnPlatform ==
    Bound("i2c-ELAN0001:00", Some("../../../../devices/platform/AMDI0010:00/i2c-300/i2c-ELAN0001:00"))

FrmwNoLink == Bound("i2c-FRMW0005:00", None)

DriverDirs ==
    { DirAbsent,
      DirUnreadable,
      Dir(<< BindFile, PixaOnBus0 >>),
      Dir(<< PixaOnBus0, FrmwOnBus0 >>),
      Dir(<< ElanOnBus5, PixaOnBus0 >>),
      Dir(<< PixaOnBus0, ElanNoLink >>),
      Dir(<< ElanOnPlatform, PixaOnBus0 >>),
      Dir(<< ElanOnPlatform, PixaOnBus0, FrmwNoLink >>),
      Dir(<< FrmwOnBus0 >>) }

\* Entries of /sys/bus/hid/devices: a name, the lines of uevent if it can be
\* read, and the input directory with the content of each name file.
Hid(name, uevent, input) == [name |-> name, uevent |-> uevent, input |-> input]

NoInput == [exists |-> FALSE, names |-> << >>]

Inputs(names) == [exists |-> TRUE, names |-> names]

UsbMouse ==
    Hid("0003:046D:C077.0002", Some(<< "DRIVER=hid-generic", "HID_PHYS=usb-0000:00:14.0-1/input0" >>),
        Inputs(<< Some("Logitech USB Optical Mouse") >>))

PixaUevent ==
    Some(<< "DRIVER=hid-multitouch", "HID_ID=0018:0000093A:00000274",
            "HID_NAME=PIXA3854:00 093A:0274", "HID_PHYS=i2c-PIXA3854:00" >>)

PixaHid ==
    Hid("0018:093A:0274.0001", PixaUevent,
        Inputs(<< Some("PIXA3854:00 093A:0274 Mouse "), None,
                  Some("PIXA3854:00 093A:0274 Touchpad ") >>))

PixaHidNoInput == Hid("0018:093A:0274.0001", PixaUevent, NoInput)

\* A product numeral that is not hexadecimal.
ElanUevent == Some(<< "DRIVER=hid-generic", "HID_PHYS=i2c-ELAN0001:00" >>)

ElanKeyboardFirst ==
    Hid("0018:04F3:30XY.0003", ElanUevent,
        Inputs(<< Some("ELAN0001:00 04F3 Keyboard"), Some("ELAN0001:00 04F3 Touchpad") >>))

ElanTouchpadFirst ==
    Hid("0018:04F3:30XY.0003", ElanUevent,
        Inputs(<< Some("ELAN0001:00 04F3 Touchpad"), Some("ELAN0001:00 04F3 Keyboard") >>))

ElanControls ==
    Hid("0018:04F3:30XY.0003", ElanUevent, Inputs(<< Some("ELAN0001:00 Consumer Control") >>))

FrmwSensor ==
    Hid("0018:32AC:001B.0004", Some(<< "HID_PHYS=i2c-FRMW0005:00", "DRIVER=hid-sensor-hub" >>),
        NoInput)

FrmwScreen ==
    Hid("0018:32AC:001B.0004", Some(<< "HID_PHYS=i2c-FRMW0005:00", "DRIVER=hid-multitouch" >>),
        Inputs(<< Some("FRMW0005:00 Stylus"), Some("FRMW0005:00 Finger TOUCHSCREEN") >>))

HidDirs ==
    { DirAbsent,
      DirUnreadable,
      Dir(<< UsbMouse, PixaHid, ElanKeyboardFirst, FrmwSensor >>),
      Dir(<< PixaHid, ElanTouchpadFirst, FrmwScreen >>),
      Dir(<< PixaHidNoInput, ElanControls >>),
      Dir(<< UsbMouse >>) }

\* The hosts of the discovery check: every table, readable or not, with every
\* driver directory and every HID device directory.
Hosts ==
    {[kernel |-> table,
      interrupts |-> IF readable THEN Some(ProcInterrupts(table)) ELSE None,
      driver_dir |-> d,
      hid_dir |-> h] :
        table \in KernelTables, readable \in BOOLEAN, d \in DriverDirs, h \in HidDirs}

(* ---------------------------- discovery check -------------------------- *)

\* A host on which nothing has run yet.
InitDiscovery ==
    /\ fs \in Hosts
    /\ pass1 = None
    /\ pass2 = None
    /\ table_counts = None
    /\ topology = TopoEmpty
    /\ initial_counts = << >>
    /\ interval_ms = 1000
    /\ AppNew
    /\ pc = "start"
    /\ next_sample = 0
    /\ MonitorOff

\* discover() runs on the host.
FirstPass ==
    /\ pass1 = None
    /\ \E result \in discover(fs) : pass1' = Some(result)
    /\ UNCHANGED << app_vars, pc, now, next_sample, topology, initial_counts, reads,
                    mon_pc, prev_counts, sample_num, row, any_high, count, threshold,
                    printed, fs, pass2, table_counts >>

\* discover() runs on the same host once more (another start of the program).
SecondPass ==
    /\ pass1 # None
    /\ pass2 = None
    /\ \E result \in discover(fs) : pass2' = Some(result)
    /\ UNCHANGED << app_vars, pc, now, next_sample, topology, initial_counts, reads,
                    mon_pc, prev_counts, sample_num, row, any_high, count, threshold,
                    printed, fs, pass1, table_counts >>

\* read_interrupts() runs on the host.
ReadTable ==
    /\ table_counts = None
    /\ table_counts' = Some(read_interrupts(fs))
    /\ UNCHANGED << app_vars, pc, now, next_sample, topology, initial_counts, reads,
                    mon_pc, prev_counts, sample_num, row, any_high, count, threshold,
                    printed, fs, pass1, pass2 >>

NextDiscovery ==
    \/ FirstPass
    \/ SecondPass
    \/ ReadTable

SpecDiscovery == InitDiscovery /\ [][NextDiscovery]_vars

(* --------- the dashboard loop under a continuous stream of keys --------- *)

\* A key press is waiting at every event::poll, so that no poll ever sleeps;
\* time passes while terminal.draw renders the frame.
FrameCosts == {200, 300}

InitStream ==
    /\ topology = TopoPair
    /\ initial_counts = [i \in {"42", "44"} |-> 0]
    /\ interval_ms = 500
    /\ AppNew
    /\ pc = "start"
    /\ next_sample = 0
    /\ MonitorOff
    /\ DiscoveryOff

\* while !app.should_quit: terminal.draw takes cost ms.
StreamDraw ==
    /\ pc = "top"
    /\ ~should_quit
    /\ \E cost \in FrameCosts : now' = now + cost
    /\ pc' = "poll"
    /\ UNCHANGED << app_vars, next_sample, topology, initial_counts, reads, mon_vars >>

\* The reads of the run: both counters go up, or IRQ 44 is gone from the table.
StreamSnapshots ==
    { [i \in {"42", "44"} |-> IF i = "42" THEN 5 ELSE 4],
      [i \in {"42"} |-> 0] }

StreamTick == TickWith(StreamSnapshots, MaxTicks)

NextStream ==
    \/ Start
    \/ StreamDraw
    \/ AxisKey
    \/ StreamTick
    \/ TickSkip

\* The loop is one thread that always goes on to its next statement.
SpecStream == InitStream /\ [][NextStream]_vars /\ WF_vars(NextStream)

(* ------------------------------- claims -------------------------------- *)

\* A step of the run loop that handles the key `code`.
KeyStep(code) == pc = "poll" /\ pc' = "tick" /\ handle_key(code)

\* C5: in every reachable state of the dashboard the cursor selected_idx is in
\* [0, number_of_series], the last value being the TOTAL row, so that
\* toggle_visibility indexes the series list only inside it.
C5_CursorInRange ==
    /\ selected_idx >= 0
    /\ selected_idx <= Len(sources)
    /\ selected_idx < Len(sources) => (selected_idx + 1) \in DOMAIN sources

\* The cursor is on the TOTAL row of a two-series dashboard, the TOTAL row has
\* been toggled and a tick has been taken.
C5_Witness ==
    /\ Len(sources) = 2
    /\ selected_idx = Len(sources)
    /\ ~total_visible
    /\ sample_count > 0

\* C6: with n series, select_next takes cursor i to (i + 1) mod (n + 1) and
\* select_prev takes it to (i - 1) mod (n + 1); next from n gives 0, previous
\* from 0 gives n, and each undoes the other.
C6_WrapModulo ==
    [][LET n == Len(sources)
           i == selected_idx
       IN /\ KeyStep("down") => selected_idx' = (i + 1) % (n + 1)
          /\ KeyStep("up") => selected_idx' = (i - 1) % (n + 1)
          /\ (KeyStep("down") /\ i = n) => selected_idx' = 0
          /\ (KeyStep("up") /\ i = 0) => selected_idx' = n
          /\ prev_idx(next_idx(i, n + 1), n + 1) = i
          /\ next_idx(prev_idx(i, n + 1), n + 1) = i]_vars

\* The cursor of a two-series dashboard has been moved to the TOTAL row.
C6_Witness ==
    /\ Len(sources) = 2
    /\ selected_idx = 2
    /\ pc = "tick"

\* The fields of a series other than its visible flag.
Rest(s) ==
    << s.irq, s.name, s.device_type, s.is_controller, s.color_idx, s.data, s.prev_count,
       s.latest_rate, s.rate_sum, s.rate_min, s.rate_max >>

\* C7: toggle_visibility flips the visible flag of the selected series, or
\* total_visible when the cursor is on the TOTAL row, and nothing else: no other
\* row's flag, not the cursor, the quit flag, a history, an aggregate or a
\* colour index; applied twice it restores the state.
C7_ToggleFlipsOne ==
    [][KeyStep("space") =>
         /\ Len(sources') = Len(sources)
         /\ \A j \in 1..Len(sources) :
              /\ sources'[j].visible =
                   (IF j = selected_idx + 1 THEN ~sources[j].visible ELSE sources[j].visible)
              /\ Rest(sources'[j]) = Rest(sources[j])
         /\ total_visible' =
              (IF selected_idx >= Len(sources) THEN ~total_visible ELSE total_visible)
         /\ UNCHANGED << selected_idx, should_quit, total_history, total_latest,
                          total_sum, total_min, total_max, sample_count, interval_ms >>
         /\ ToggleSources(ToggleSources(sources, selected_idx), selected_idx) = sources
         /\ ToggleTotal(ToggleTotal(total_visible, sources, selected_idx),
                         sources, selected_idx) = total_visible]_vars

\* A series row and the TOTAL row are hidden while the other series is shown,
\* with samples recorded.
C7_Witness ==
    /\ Len(sources) = 2
    /\ ~sources[2].visible
    /\ sources[1].visible
    /\ ~total_visible
    /\ sample_count > 0

\* The last element of a non-empty sequence.
Last(seq) == seq[Len(seq)]

\* The rate the series s recorded at elapsed time t, zero if it recorded none.
RateAt(s, t) ==
    LET at == {k \in 1..Len(s.data) : s.data[k][1] = t}
    IN IF at = {} THEN 0 ELSE s.data[CHOOSE k \in at : TRUE][2]

RECURSIVE SumRatesAt(_, _, _)
SumRatesAt(srcs, k, t) ==
    IF k = 0 THEN 0 ELSE SumRatesAt(srcs, k - 1, t) + RateAt(srcs[k], t)

\* Every TOTAL point is the sum of the points the series recorded at its tick.
TotalIsSum ==
    /\ \A k \in 1..Len(total_history) :
         total_history[k][2] = SumRatesAt(sources, Len(sources), total_history[k][1])
    /\ total_history # << >> => total_latest = Last(total_history)[2]

\* The step changes a visibility flag or the cursor.
ViewChanges ==
    \/ selected_idx' # selected_idx
    \/ total_visible' # total_visible
    \/ \E j \in 1..Len(sources) : sources'[j].visible # sources[j].visible

\* C3: after every tick the TOTAL value (total_latest, the last point of
\* total_history) is the sum over all series, visible or hidden, of the rate
\* each recorded at that tick (none recorded counts as zero), and no
\* visibility toggle or cursor move changes a TOTAL value.
C3_TotalIsSum ==
    [][/\ TotalIsSum'
       /\ ViewChanges =>
            UNCHANGED << total_history, total_latest, total_sum, total_min, total_max >>]_vars

\* A tick taken while the first series is hidden, both series having a
\* non-zero rate at it.
C3_Witness ==
    /\ Len(sources) = 2
    /\ ~sources[1].visible
    /\ total_history # << >>
    /\ RateAt(sources[1], Last(total_history)[1]) > 0
    /\ RateAt(sources[2], Last(total_history)[1]) > 0
    /\ total_latest > RateAt(sources[2], Last(total_history)[1])

\* The step is a tick: App::sample has been given one more snapshot.
TickStep == Len(reads') = Len(reads) + 1

\* C4: at a tick whose snapshot lacks a series' IRQ id, the rate of the series
\* for the tick is zero (in TOTAL and as reported for the series afterwards),
\* its prev_count and its recorded points are unchanged and the tick does not
\* fail; a series that is present gets its rate against its baseline.
C4_AbsentSourceRateZero ==
    [][TickStep =>
         /\ pc' = "top"
         /\ \A i \in 1..Len(sources) :
              IF sources[i].irq \in DOMAIN Last(reads')
              THEN sources'[i].latest_rate * interval_ms =
                     Max(0, Last(reads')[sources[i].irq] - sources[i].prev_count) * 1000000
              ELSE /\ sources'[i].latest_rate = 0
                   /\ RateAt(sources'[i], now') = 0
                   /\ sources'[i].prev_count = sources[i].prev_count
                   /\ sources'[i].data = sources[i].data]_vars

\* C8: q or Esc sets should_quit and nothing clears it; once it is set no
\* frame is drawn and no key is handled, and the loop exits at its next check;
\* a tick that is due in the iteration of the quit key is still taken whole
\* (or ends the run with its read error) before that check.
C8_QuitCooperative ==
    [][/\ KeyStep("quit") => should_quit'
       /\ should_quit => should_quit'
       /\ should_quit' => pc' # "poll"
       /\ (should_quit /\ pc = "top") => pc' = "done"
       /\ (should_quit /\ pc = "tick" /\ now >= next_sample) =>
            \/ pc' = "error" /\ UNCHANGED app_vars
            \/ /\ pc' = "top"
               /\ sample_count' = sample_count + 1
               /\ Len(total_history') = Len(total_history) + 1
               /\ Last(total_history')[1] = now'
               /\ \A i \in 1..Len(sources) :
                    sources[i].irq \in DOMAIN Last(reads') =>
                      /\ Last(sources'[i].data)[1] = now'
                      /\ sources'[i].prev_count = Last(reads')[sources[i].irq]
               /\ next_sample' = now' + interval_ms]_vars

\* The quit key has been handled in an iteration whose tick is due, after an
\* earlier tick.
C8_Witness ==
    /\ should_quit
    /\ pc = "tick"
    /\ now >= next_sample
    /\ sample_count = 1

\* The count the series i started from, and the count it had at tick k.
CountAt(i, k) ==
    LET irq == sources[i].irq
    IN IF k = 0
       THEN (IF irq \in DOMAIN initial_counts THEN initial_counts[irq] ELSE 0)
       ELSE reads[k][irq]

\* The series i was in every snapshot and its counter never went down.
Steady(i) ==
    \A k \in 1..Len(reads) :
      /\ sources[i].irq \in DOMAIN reads[k]
      /\ reads[k][sources[i].irq] >= CountAt(i, k - 1)

\* C9: for a series present in every snapshot whose counter never decreases,
\* the rate of each tick is (count at the tick - count at the previous tick) /
\* nominal interval whatever the time between the ticks, and the sum of its
\* rates times the nominal interval is its latest count minus its seed count.
C9_NoDeltaLost ==
    \A i \in 1..Len(sources) :
      (Steady(i) /\ Len(reads) <= MAX_POINTS) =>
        /\ Len(sources[i].data) = Len(reads)
        /\ \A k \in 1..Len(reads) :
             sources[i].data[k][2] * interval_ms
               = (CountAt(i, k) - CountAt(i, k - 1)) * 1000000
        /\ sources[i].rate_sum * interval_ms
             = (CountAt(i, Len(reads)) - CountAt(i, 0)) * 1000000
        /\ sources[i].prev_count = CountAt(i, Len(reads))

\* Two ticks of a steady series, the second one late and with a non-zero rate.
C9_Witness ==
    \E i \in 1..Len(sources) :
      /\ Steady(i)
      /\ Len(sources[i].data) = 2
      /\ sources[i].data[2][1] - sources[i].data[1][1] > interval_ms
      /\ sources[i].data[2][2] > 0
      /\ sources[i].data[1][2] > 0

\* C10: the running aggregates never reset: over every step rate_max and
\* total_max do not decrease, rate_min and total_min do not increase, rate_sum
\* and total_sum do not decrease, sample_count goes up by exactly one at a tick
\* and is unchanged otherwise, and a series with a recorded sample has
\* rate_min <= latest_rate <= rate_max.
C10_AggregatesNeverReset ==
    [][/\ Len(sources') = Len(sources)
       /\ \A i \in 1..Len(sources) :
            /\ sources'[i].rate_max >= sources[i].rate_max
            /\ sources'[i].rate_min <= sources[i].rate_min
            /\ sources'[i].rate_sum >= sources[i].rate_sum
            /\ sources'[i].data # << >> =>
                 /\ sources'[i].rate_min <= sources'[i].latest_rate
                 /\ sources'[i].latest_rate <= sources'[i].rate_max
       /\ total_max' >= total_max
       /\ total_min' <= total_min
       /\ total_sum' >= total_sum
       /\ sample_count' = (IF TickStep THEN sample_count + 1 ELSE sample_count)]_vars

\* A series whose second rate is below its first, the TOTAL likewise: the
\* maximum is the older sample.
C10_Witness ==
    /\ sample_count = 2
    /\ \E i \in 1..Len(sources) :
         /\ Len(sources[i].data) = 2
         /\ sources[i].latest_rate < sources[i].rate_max
         /\ sources[i].rate_min = sources[i].latest_rate
    /\ total_latest < total_max

\* The step pushes onto the window old, leaving new, at elapsed time t: the
\* window is never over MAX_POINTS, and a push either appends (window not yet
\* full) or drops exactly the oldest point and appends at the back.
WindowStep(old, new, t) ==
    /\ Len(new) <= MAX_POINTS
    /\ new # old =>
         /\ Last(new)[1] = t
         /\ IF Len(old) >= MAX_POINTS
            THEN /\ Len(new) = MAX_POINTS
                 /\ \A k \in 1..(MAX_POINTS - 1) : new[k] = old[k + 1]
            ELSE /\ Len(new) = Len(old) + 1
                 /\ \A k \in 1..Len(old) : new[k] = old[k]

\* C1: every series history and the TOTAL history hold at most MAX_POINTS
\* points; a push onto a full history removes exactly the oldest point and
\* appends the new one at the back, so the window stays at MAX_POINTS points,
\* the most recent ones in arrival order.
C1_WindowFifo ==
    [][/\ WindowStep(total_history, total_history', now')
       /\ \A i \in 1..Len(sources) :
            WindowStep(sources[i].data, sources'[i].data, now')]_vars

\* More than MAX_POINTS ticks have been taken and every history is full, its
\* oldest point being later than the first tick.
C1_Witness ==
    /\ sample_count > MAX_POINTS
    /\ Len(total_history) = MAX_POINTS
    /\ total_history[1][1] >= 2 * interval_ms
    /\ Len(sources) = 2
    /\ \A i \in 1..Len(sources) :
         /\ Len(sources[i].data) = MAX_POINTS
         /\ sources[i].data[1][1] >= 3 * interval_ms

\* The rate r is the one of counts prev then cur sampled ims milliseconds apart.
IsRate(r, prev, cur, ims) ==
    /\ r * ims = Max(0, cur - prev) * 1000000
    /\ r >= 0
    /\ r * ims <= cur * 1000000
    /\ (prev = 100 /\ cur = 150 /\ ims = 1000) => r = 50000

\* C2: for every pair of counts and every sampling interval the rate of a tick
\* is max(0, current - previous) / interval_seconds, in the dashboard and in
\* monitor mode: never negative, never a wrapped difference, and 50.0/s for
\* counts 100 then 150 one second apart.
C2_RateClamped ==
    /\ sample_count = 1 =>
         /\ IsRate(sources[1].latest_rate, initial_counts["42"], reads[1]["42"], interval_ms)
         /\ Last(sources[1].data)[2] = sources[1].latest_rate
    /\ sample_num = 1 =>
         IsRate(row[1], initial_counts["42"], reads[1]["42"], interval_ms)

\* A counter reset (150 then 100) sampled by the dashboard and by monitor mode.
C2_Witness ==
    /\ sample_count = 1
    /\ sample_num = 1
    /\ initial_counts["42"] = 150
    /\ reads[1]["42"] = 100
    /\ sources[1].latest_rate = 0
    /\ row[1] = 0

(* ---- C11 ---- *)

\* The steps nice_step can return: 1, 2, 5 or 10 times a power of ten.
NiceSteps == {f * 10 ^ k : f \in {1, 2, 5, 10}, k \in 0..7}

\* The series with the points of every hidden one removed.
VisibleOnly(srcs) ==
    [i \in 1..Len(srcs) |-> IF srcs[i].visible THEN srcs[i] ELSE [srcs[i] EXCEPT !.data = << >>]]

\* C11: y_max depends only on the points of the visible series and, when
\* total_visible, of the TOTAL history: hidden series never influence it.  It
\* is at least 10, at least 1.1 times the largest such rate, and a whole
\* multiple of a step of the form {1, 2, 5, 10} x 10^k.  For a target maximum
\* of 42 the step is of that form and the rounded ceiling is at least 42.
C11_YMaxVisibleNice ==
    LET raw_max == Max((MaxOfPoints(IF total_visible THEN total_history ELSE << >>,
                                    MaxOfVisible(sources, 0)) * 11) \div 10, 10000)
    IN /\ y_max = y_max_of(VisibleOnly(sources), total_visible,
                          IF total_visible THEN total_history ELSE << >>)
       /\ y_max >= 10000
       /\ \A i \in 1..Len(sources) :
            sources[i].visible =>
                \A j \in 1..Len(sources[i].data) : 10 * y_max >= 11 * sources[i].data[j][2]
       /\ total_visible =>
            \A j \in 1..Len(total_history) : 10 * y_max >= 11 * total_history[j][2]
       /\ nice_step(raw_max) \in NiceSteps
       /\ y_max % nice_step(raw_max) = 0
       /\ nice_step(42000) \in NiceSteps
       /\ ceil_to_step(42000, nice_step(42000)) >= 42000

\* A hidden series holds the largest rate of the dashboard, above the axis
\* that is drawn, while a visible series has a rate above the floor.
C11_Witness ==
    /\ \E i \in 1..Len(sources) :
         /\ ~sources[i].visible
         /\ \E j \in 1..Len(sources[i].data) : sources[i].data[j][2] > y_max
    /\ \E i \in 1..Len(sources) :
         /\ sources[i].visible
         /\ \E j \in 1..Len(sources[i].data) : sources[i].data[j][2] > 10000
    /\ pc = "poll"

(* ---- C12 ---- *)

\* C12: a counter read that fails at a tick, in the dashboard loop or in
\* monitor mode, ends the run with that error: the read is not retried, no
\* later tick is attempted, and the histories, baselines and aggregates keep
\* the values they had after the last successful tick (the failed tick records
\* nothing).
C12_ReadErrorEndsRun ==
    [][/\ (pc = "tick" /\ pc' # "top") =>
            /\ pc' \in {"tick", "error"}
            /\ UNCHANGED << app_vars, reads, next_sample >>
       /\ pc = "error" => UNCHANGED << pc, app_vars, reads, next_sample, now >>
       /\ (mon_pc = "loop" /\ mon_pc' = "error") =>
            UNCHANGED << prev_counts, row, any_high, printed >>
       /\ mon_pc = "error" =>
            UNCHANGED << mon_pc, prev_counts, sample_num, row, any_high, printed >>]_vars

\* Both runs have ended on a failed read after a successful tick.
C12_Witness ==
    /\ pc = "error"
    /\ sample_count = 1
    /\ sources[1].data # << >>
    /\ mon_pc = "error"
    /\ Len(printed) = 1

(* ---- C17 ---- *)

\* C17: monitor mode has the sampling semantics of the dashboard sampler.
\* Started on the same seed table and given the same snapshot at every tick,
\* the rate cmd_monitor prints for a tracked source at tick k is the rate the
\* dashboard records for it at tick k, and its baseline is the dashboard's:
\* also at a tick where the source's IRQ id is missing from the table (rate
\* zero, baseline left unchanged) and at the tick where it reappears.
C17_MonitorMatchesDashboard ==
    /\ \A k \in 1..Len(printed) :
         k <= Len(total_history) =>
            \A i \in 1..Len(sources) :
               printed[k].rates[i] = RateAt(sources[i], total_history[k][1])
    /\ (mon_pc \in {"loop", "done"} /\ sample_num = sample_count) =>
         \A i \in 1..Len(sources) :
            sources[i].prev_count =
               (IF sources[i].irq \in DOMAIN prev_counts THEN prev_counts[sources[i].irq] ELSE 0)

(* ---- C18 ---- *)

\* C18: monitor mode with at least one tracked source and every read
\* succeeding.  With count = n > 0 it prints exactly n rows, numbered 1..n, and
\* then returns successfully; with count = 0 it never returns on its own.
\* A row is flagged HIGH exactly when the rate of at least one tracked source
\* at that tick is strictly greater than the threshold, and ok otherwise.
C18_MonitorRows ==
    mon_pc # "error" =>
        /\ Len(all_sources(topology)) >= 1
        /\ \A k \in 1..Len(printed) :
             /\ printed[k].num = k
             /\ Len(printed[k].rates) = Len(all_sources(topology))
             /\ printed[k].high <=>
                  \E i \in 1..Len(printed[k].rates) : printed[k].rates[i] > threshold
        /\ sample_num = Len(printed)
        /\ count > 0 => Len(printed) <= count
        /\ mon_pc = "done" <=> (count > 0 /\ Len(printed) = count)
        /\ count = 0 => mon_pc = "loop"

\* A run with count = 2 has returned after a HIGH row and an ok row, the ok row
\* holding a rate equal to the threshold.
C18_Witness ==
    /\ mon_pc = "done"
    /\ count = 2
    /\ Len(printed) = 2
    /\ printed[1].high
    /\ ~printed[2].high
    /\ \E i \in 1..Len(printed[2].rates) : printed[2].rates[i] = threshold

(* ---- C13 ---- *)

\* The devices of a discovery result, each with the index of its controller.
DevicesOf(result) ==
    {<< c, d >> \in (1..Len(result.controllers)) \X (1..Len(fs.driver_dir.entries)) :
        d <= Len(result.controllers[c].hid_devices)}

DeviceAt(result, p) == result.controllers[p[1]].hid_devices[p[2]]

\* The entry of the driver directory a device was made from.
EntryOf(device) ==
    LET entries == fs.driver_dir.entries
    IN entries[CHOOSE i \in 1..Len(entries) : entries[i].name = "i2c-" \o device.acpi_name]

\* C13: discover() returns an error when the interrupt table cannot be read.
\* When the table is readable but the HID-over-I2C driver directory or the
\* generic HID device directory is absent it returns Ok, with an empty
\* controller list in the first case.  A heuristic that misses on one entry
\* (no controller segment in the link target, an unparseable bus or
\* vendor/product numeral, no GPIO line for the ACPI id) never turns the pass
\* into an error: the field gets its default ("unknown", 0, 0, none).
C13_DiscoverErrors ==
    pass1 # None =>
        LET result == pass1[1]
            listed == /\ fs.driver_dir.exists => fs.driver_dir.readable
                      /\ fs.hid_dir.exists => fs.hid_dir.readable
        IN /\ fs.interrupts = None => ~result.ok
           /\ (fs.interrupts # None /\ ~fs.driver_dir.exists) =>
                 result.ok /\ result.controllers = << >>
           /\ (fs.interrupts # None /\ ~fs.hid_dir.exists /\ listed) => result.ok
           /\ (fs.interrupts # None /\ listed) => result.ok
           /\ result.ok =>
                \A p \in DevicesOf(result) :
                   LET device == DeviceAt(result, p)
                       link == EntryOf(device).link
                   IN /\ (link = None \/ ~Contains(link[1], "i2c_designware.")) =>
                            device.controller = "unknown"
                      /\ (link = None \/ Contains(link[1], "/i2c-300/")) => device.bus_num = 0
                      /\ (~fs.hid_dir.exists \/ device.acpi_name = "ELAN0001:00") =>
                            device.product_id = 0
                      /\ ~fs.hid_dir.exists => device.vendor_id = 0
                      /\ (\A i \in 1..Len(fs.kernel.rows) :
                             ~Contains(fs.kernel.rows[i].annotation, device.acpi_name)) =>
                            device.gpio_irq = None

\* A pass that returned Ok with no generic HID device directory and with a
\* device whose link target names no controller and no u8 bus number.
C13_Witness ==
    /\ pass1 # None
    /\ pass1[1].ok
    /\ fs.interrupts # None
    /\ ~fs.hid_dir.exists
    /\ \E p \in DevicesOf(pass1[1]) :
          /\ DeviceAt(pass1[1], p).controller = "unknown"
          /\ EntryOf(DeviceAt(pass1[1], p)).link # None
          /\ DeviceAt(pass1[1], p).gpio_irq = None

(* ---- C14 ---- *)

\* The names of the driver directory that stand for a device.
DeviceEntries ==
    {i \in 1..Len(fs.driver_dir.entries) : starts_with(fs.driver_dir.entries[i].name, "i2c-")}

\* The grouping of C14 in one result.
Grouped(result) ==
    /\ \A c1, c2 \in 1..Len(result.controllers) :
          result.controllers[c1].name = result.controllers[c2].name => c1 = c2
    /\ \A i \in DeviceEntries :
          Cardinality({p \in DevicesOf(result) :
                          "i2c-" \o DeviceAt(result, p).acpi_name = fs.driver_dir.entries[i].name}) = 1
    /\ Cardinality(DevicesOf(result)) = Cardinality(DeviceEntries)
    /\ \A p \in DevicesOf(result) :
          /\ result.controllers[p[1]].name = DeviceAt(result, p).controller
          /\ (EntryOf(DeviceAt(result, p)).link = None
              \/ ~Contains(EntryOf(DeviceAt(result, p)).link[1], "i2c_designware.")) =>
                result.controllers[p[1]].name = "unknown"

\* C14: in every Topology discover() returns no two controllers have the same
\* name, every discovered HID device is in the list of exactly one controller,
\* and that controller's name is the device's controller field; this holds
\* also for the devices whose link target names no controller, which are
\* grouped under the controller "unknown".
C14_DevicesGrouped ==
    /\ (pass1 # None /\ pass1[1].ok) => Grouped(pass1[1])
    /\ (pass2 # None /\ pass2[1].ok) => Grouped(pass2[1])

\* Three devices were found: two whose link targets name no controller share
\* the controller "unknown", the third has a controller of its own.
C14_Witness ==
    /\ pass1 # None
    /\ pass1[1].ok
    /\ Cardinality(DevicesOf(pass1[1])) = 3
    /\ \E c \in 1..Len(pass1[1].controllers) :
          /\ pass1[1].controllers[c].name = "unknown"
          /\ Len(pass1[1].controllers[c].hid_devices) = 2
    /\ Len(pass1[1].controllers) = 2

(* ---- C15 ---- *)

\* C15: the controller list of a Topology is in ascending order of bus number,
\* and the output is deterministic: two discovery passes over the same inputs
\* yield the same sequence of controllers, also when two controllers carry the
\* same bus number (for example both defaulted to 0).
C15_SortedDeterministic ==
    /\ (pass1 # None /\ pass1[1].ok) =>
          \A c1, c2 \in 1..Len(pass1[1].controllers) :
             c1 <= c2 => pass1[1].controllers[c1].bus_num <= pass1[1].controllers[c2].bus_num
    /\ (pass1 # None /\ pass2 # None) => pass1[1].controllers = pass2[1].controllers

(* ---- C16 ---- *)

RECURSIVE SumSeq(_)
SumSeq(seq) == IF seq = << >> THEN 0 ELSE Head(seq) + SumSeq(Tail(seq))

IsInteger(token) == from_str_radix(token, 10, U64_MAX) # None

\* The integer tokens an annotation starts with, at most k of them.
LeadingIntegers(tokens, k) ==
    LET n == CHOOSE n \in 0..Len(tokens) :
                 /\ n <= Max(k, 0)
                 /\ \A j \in 1..n : IsInteger(tokens[j])
                 /\ (n < Len(tokens) /\ n < k) => ~IsInteger(tokens[n + 1])
    IN [j \in 1..n |-> from_str_radix(tokens[j], 10, U64_MAX)[1]]

\* The source parsed from row i of the table of the host.
Parsed(i) == table_counts[1].sources[i]

SomeNameHolds(names, keyword) ==
    \E i \in 1..Len(names) : Contains(to_lowercase(names[i]), keyword)

\* C19: device type classification follows a fixed precedence.  If any input
\* name of the device contains (case-insensitively) touchpad, touchscreen,
\* stylus or pen, or keyboard, the label is the one of the highest-precedence
\* keyword (in that order) found in any of its input names, whatever the
\* driver and vendor and whatever the order the names were enumerated in; the
\* driver heuristics are used only when no input name holds a keyword.
C19_KeywordPrecedence ==
    (pass1 # None /\ pass1[1].ok) =>
        \A p \in DevicesOf(pass1[1]) :
           LET device == DeviceAt(pass1[1], p)
               names == device.input_names
           IN device.device_type =
                 (IF SomeNameHolds(names, "touchpad") THEN "Touchpad"
                  ELSE IF SomeNameHolds(names, "touchscreen") THEN "Touchscreen"
                  ELSE IF SomeNameHolds(names, "stylus") \/ SomeNameHolds(names, "pen")
                       THEN "Stylus"
                  ELSE IF SomeNameHolds(names, "keyboard") THEN "Keyboard"
                  ELSE TypeByDriver(device))

(* ---- C20 ---- *)

\* The last token of the annotation of a row.
LastToken(table_row) == Last(split_whitespace(table_row.annotation))

\* The rows of the table annotated with a GPIO chip whose last token is name.
GpioRows(name) ==
    {i \in 1..Len(fs.kernel.rows) :
        /\ \/ Contains(fs.kernel.rows[i].annotation, "intel-gpio")
           \/ Contains(fs.kernel.rows[i].annotation, "pinctrl")
        /\ LastToken(fs.kernel.rows[i]) = name}

\* The rows of the table that name the controller.
ControllerRows(name) ==
    {i \in 1..Len(fs.kernel.rows) :
        \E j \in 1..Len(split_whitespace(fs.kernel.rows[i].annotation)) :
           split_whitespace(fs.kernel.rows[i].annotation)[j] = name}

\* C20: correlation round trip.  On a counter table with one GPIO-annotated
\* row (IRQ g) whose last colon-bearing upper-case-initial token is the ACPI id
\* A and one row (IRQ c) that names the controller K, with one driver entry
\* for A linked under K, discovery yields exactly one controller, K, with
\* interrupt line c, owning one device, A, with GPIO line g, and the flattened
\* source list is the controller's entry followed by the device's.  A device
\* whose ACPI id has no GPIO row gets no GPIO line and is not in the flattened
\* list.
C20_RoundTrip ==
    (pass1 # None /\ pass1[1].ok) =>
        LET result == pass1[1]
            flat == all_sources(result.controllers)
        IN /\ \A k \in DeviceEntries, K \in {"i2c_designware.0", "i2c_designware.1"} :
                 LET entry == fs.driver_dir.entries[k]
                     A == strip_prefix(entry.name, "i2c-")[1]
                     g == GpioRows(A)
                     c == ControllerRows(K)
                 IN (/\ DeviceEntries = {k}
                     /\ entry.link # None
                     /\ Contains(entry.link[1], "/" \o K \o "/")
                     /\ Cardinality(g) = 1
                     /\ Cardinality(c) = 1) =>
                       LET irq_g == fs.kernel.rows[CHOOSE i \in g : TRUE].id
                           irq_c == fs.kernel.rows[CHOOSE i \in c : TRUE].id
                       IN /\ Len(result.controllers) = 1
                          /\ result.controllers[1].name = K
                          /\ result.controllers[1].irq = Some(irq_c)
                          /\ Len(result.controllers[1].hid_devices) = 1
                          /\ result.controllers[1].hid_devices[1].acpi_name = A
                          /\ result.controllers[1].hid_devices[1].gpio_irq = Some(irq_g)
                          /\ Len(flat) = 2
                          /\ flat[1].irq = irq_c /\ flat[1].is_controller
                          /\ flat[2].irq = irq_g /\ ~flat[2].is_controller
                          /\ flat[2].name = A
                          /\ flat[2].parent_controller = Some(K)
           /\ \A p \in DevicesOf(result) :
                 GpioRows(DeviceAt(result, p).acpi_name) = {} =>
                    /\ DeviceAt(result, p).gpio_irq = None
                    /\ \A j \in 1..Len(flat) : flat[j].name # DeviceAt(result, p).acpi_name

\* The round trip on the laptop table: controller i2c_designware.0 on IRQ 42
\* owns PIXA3854:00 on GPIO line 203, and the flattened list holds both.
C20_Witness ==
    /\ pass1 # None
    /\ pass1[1].ok
    /\ fs.kernel = TableLaptop
    /\ Len(pass1[1].controllers) = 1
    /\ pass1[1].controllers[1].irq = Some("42")
    /\ Len(pass1[1].controllers[1].hid_devices) = 1
    /\ pass1[1].controllers[1].hid_devices[1].gpio_irq = Some("203")
    /\ Len(all_sources(pass1[1].controllers)) = 2

(* ---- C21 ---- *)

\* The elapsed-time coordinates of a history never go down.
TimesAscend(data) ==
    \A j \in 1..(Len(data) - 1) : data[j][1] <= data[j + 1][1]

\* C21: history lengths track the tick count.  After k ticks (k snapshots
\* handed to App::sample) the TOTAL history holds exactly min(k, 300) points
\* and sample_count is k, every per-source history holds at most as many
\* points as the TOTAL history, and within every history the elapsed-time
\* coordinates are in non-decreasing order.
C21_LengthsTrackTicks ==
    LET k == Len(reads)
    IN /\ Len(total_history) = Min(k, MAX_POINTS)
       /\ sample_count = k
       /\ \A i \in 1..Len(sources) : Len(sources[i].data) <= Len(total_history)
       /\ TimesAscend(total_history)
       /\ \A i \in 1..Len(sources) : TimesAscend(sources[i].data)

\* More than 300 ticks have been taken: the TOTAL history is full and a
\* series that was missing from some snapshots holds fewer points.
C21_Witness ==
    /\ Len(reads) > MAX_POINTS
    /\ sample_count = Len(reads)
    /\ Len(total_history) = MAX_POINTS
    /\ \E i \in 1..Len(sources) :
          /\ sources[i].data # << >>
          /\ Len(sources[i].data) < Len(total_history)

(* ---- C22 ---- *)

\* A step of one iteration of the loop: at most one key is handled, and it
\* records nothing; a deadline that has passed at the tick check is followed by
\* exactly one sample and a deadline one interval after it; a deadline that
\* has not passed by no sample; a sample is taken nowhere else, and is at
\* least one interval after the one before it.
IterationStep ==
    /\ pc = "poll" =>
         /\ pc' = "tick"
         /\ \/ \E code \in Keys : handle_key(code)
            \/ UNCHANGED app_vars
         /\ UNCHANGED << total_history, sample_count, reads, next_sample >>
         /\ \A i \in 1..Len(sources) : Rest(sources'[i]) = Rest(sources[i])
    /\ (pc = "tick" /\ now >= next_sample) =>
         /\ pc' = "top"
         /\ sample_count' = sample_count + 1
         /\ Len(reads') = Len(reads) + 1
         /\ Len(total_history') = Len(total_history) + 1
         /\ Last(total_history')[1] = now
         /\ next_sample' = now' + interval_ms
         /\ ~ViewChanges
    /\ (pc = "tick" /\ now < next_sample) =>
         /\ pc' = "top"
         /\ UNCHANGED << app_vars, reads, next_sample >>
    /\ (sample_count' # sample_count \/ TickStep) =>
         /\ pc = "tick"
         /\ pc' = "top"
         /\ now >= next_sample
         /\ Len(total_history') = 1 => Last(total_history')[1] >= interval_ms
         /\ Len(total_history') >= 2 =>
              Last(total_history')[1] - Last(total_history)[1] >= interval_ms

\* C22: input cannot starve sampling, and sampling and input never interleave.
\* Each iteration of the dashboard loop handles at most one key event and
\* then, if the tick deadline has passed, takes exactly one sample in that
\* same iteration and sets the next deadline one nominal interval after it.
\* With a key press waiting at every poll, every iteration comes to a tick
\* check at which the deadline has passed, and the tick is taken there; at
\* most one tick is taken per iteration and two consecutive ticks are never
\* closer together than the nominal interval.
C22_InputCannotStarve ==
    /\ [][IterationStep]_vars
    /\ (pc = "top") ~> (pc = "tick" /\ now >= next_sample)
    /\ <>(sample_count > 0)

\* A second tick has been taken late, in an iteration that handled a key,
\* after keys that moved the cursor to the TOTAL row; the next deadline is one
\* interval after it.
C22_Witness ==
    /\ pc = "top"
    /\ Len(total_history) = 2
    /\ total_history[2][1] - total_history[1][1] > interval_ms
    /\ next_sample = now + interval_ms
    /\ selected_idx = 2

====
